---- MODULE Spec2Model ----
(***************************************************************************)
(* mapproxy/response.py: the Response object (status, headers, body,       *)
(* freshness timestamp), its cache and conditional-request operations, its *)
(* WSGI serialization and the static_file_response factory.                *)
(*                                                                         *)
(* Python values are represented as follows.                               *)
(*   - an optional value is a sequence of length <= 1: None is <<>>;       *)
(*   - a dict is a function whose DOMAIN is its set of keys;               *)
(*   - a byte string is [kind |-> "str", chars |-> bytes], a unicode       *)
(*     string [kind |-> "unicode", chars |-> code points], a list of       *)
(*     chunks [kind |-> "list", items |-> ...], a file-like object         *)
(*     [kind |-> "file"] (its state is the variable f);                    *)
(*   - a time is a number of ticks, Res ticks to the second, so that a     *)
(*     float time with a sub-second fraction has a representation.         *)
(***************************************************************************)
EXTENDS Integers, Sequences, FiniteSets, TLC

VARIABLES
    phase,       \* "start" | "failed" | "setup" | "serving" | "done" | "abandoned"
    status,      \* Response._status: the status line
    headers,     \* Response.headers
    response,    \* Response.response: the body
    _timestamp,  \* Response._timestamp
    f,           \* the file-like object given as body (or opened by the factory)
    resp_iter,   \* the iterable __call__ returned to the transport
    started,     \* the calls of start_response: <<status, headers>> each
    sent,        \* the chunks the transport has pulled from resp_iter
    raised,      \* the exception the last operation raised ("" if none)
    downgraded,  \* history: make_conditional has turned this Response into a 304
    served,      \* history: the body as it was when __call__ was entered
    last         \* history: the last operation and its arguments

vars == <<phase, status, headers, response, _timestamp, f, resp_iter, started,
          sent, raised, downgraded, served, last>>

(* ------------------------------ bounds -------------------------------- *)

\* ticks per second
Res == 2
\* the largest time, in ticks
MaxTicks == 2
\* the transport's read size; stands for block_size = 1024 * 32
block_size == 2

(* --------------------------- python helpers --------------------------- *)

None == <<>>

Some(v) == <<v>>

EmptyDict == [k \in {} |-> ""]

Put(d, k, v) == [x \in DOMAIN d \cup {k} |-> IF x = k THEN v ELSE d[x]]

Del(d, k) == [x \in DOMAIN d \ {k} |-> d[x]]

\* python values that are compared with ==, as <<type, repr>>
PyNone == <<"NoneType", "None">>

PyStr(s) == <<"str", s>>

PyInt(n) == <<"int", ToString(n)>>

\* dict.get(key, default) on a dict of strings
DictGet(d, key, default) == IF key \in DOMAIN d THEN PyStr(d[key]) ELSE default

Str(chars) == [kind |-> "str", chars |-> chars]

Unicode(chars) == [kind |-> "unicode", chars |-> chars]

List(items) == [kind |-> "list", items |-> items]

File == [kind |-> "file"]

\* unicode.encode('utf-8') of one code point (below 2^16)
Utf8(cp) ==
    IF cp < 128 THEN <<cp>>
    ELSE IF cp < 2048 THEN <<192 + (cp \div 64), 128 + (cp % 64)>>
    ELSE <<224 + (cp \div 4096), 128 + ((cp \div 64) % 64), 128 + (cp % 64)>>

RECURSIVE EncodeChars(_)
EncodeChars(chars) ==
    IF chars = <<>> THEN <<>>
    ELSE Utf8(Head(chars)) \o EncodeChars(Tail(chars))

RECURSIVE Concat(_)
Concat(chunks) ==
    IF chunks = <<>> THEN <<>> ELSE Head(chunks) \o Concat(Tail(chunks))

(* ------------------- mapproxy.util.times (external) ------------------- *)

\* an RFC 2616 date of the first seconds of the epoch
HttpDate(secs) == "Thu, 01 Jan 1970 00:00:0" \o ToString(secs) \o " GMT"

\* timestamp(date): a number passes through
timestamp(date) == date

\* format_httpdate(timestamp): whole seconds, the fraction is dropped
format_httpdate(ts) == HttpDate(ts \div Res)

\* parse_httpdate(date): None for an absent or unparseable date
parse_httpdate(date) ==
    IF date = PyNone THEN None
    ELSE IF \E s \in 0 .. (MaxTicks \div Res) + 1 : PyStr(HttpDate(s)) = date
         THEN Some(Res * (CHOOSE s \in 0 .. (MaxTicks \div Res) + 1 :
                              PyStr(HttpDate(s)) = date))
         ELSE None

(* ------------------------------ status -------------------------------- *)

_status_codes ==
    (100 :> "Continue") @@ (101 :> "Switching Protocols") @@
    (200 :> "OK") @@ (201 :> "Created") @@ (202 :> "Accepted") @@
    (203 :> "Non-Authoritative Information") @@ (204 :> "No Content") @@
    (205 :> "Reset Content") @@ (206 :> "Partial Content") @@
    (300 :> "Multiple Choices") @@ (301 :> "Moved Permanently") @@
    (302 :> "Found") @@ (303 :> "See Other") @@ (304 :> "Not Modified") @@
    (305 :> "Use Proxy") @@ (307 :> "Temporary Redirect") @@
    (400 :> "Bad Request") @@ (401 :> "Unauthorized") @@
    (402 :> "Payment Required") @@ (403 :> "Forbidden") @@
    (404 :> "Not Found") @@ (405 :> "Method Not Allowed") @@
    (406 :> "Not Acceptable") @@ (407 :> "Proxy Authentication Required") @@
    (408 :> "Request Time-out") @@ (409 :> "Conflict") @@ (410 :> "Gone") @@
    (411 :> "Length Required") @@ (412 :> "Precondition Failed") @@
    (413 :> "Request Entity Too Large") @@ (414 :> "Request-URI Too Large") @@
    (415 :> "Unsupported Media Type") @@
    (416 :> "Requested range not satisfiable") @@
    (417 :> "Expectation Failed") @@ (500 :> "Internal Server Error") @@
    (501 :> "Not Implemented") @@ (502 :> "Bad Gateway") @@
    (503 :> "Service Unavailable") @@ (504 :> "Gateway Time-out") @@
    (505 :> "HTTP Version not supported")

\* status_code(code); the caller has checked that the lookup succeeds
status_code(code) == ToString(code) \o " " \o _status_codes[code]

(* ------------------------------ Response ------------------------------ *)

\* a Response object, with the exception the operation on it raised
Obj(st, h, r, ts) ==
    [status |-> st, headers |-> h, response |-> r, _timestamp |-> ts,
     raised |-> ""]

Raise(self, exc) == [self EXCEPT !.raised = exc]

\* an int (or long) argument, and one of any other type
IntArg(n) == <<"int", n>>

StrArg(s) == <<"str", s>>

\* mutant of _status_set: the phrase is looked up with a default
\* (_status_codes.get(code, 'Unknown')), so that no code is refused
status_set_with_default(self, st) ==
    IF st[1] = "int"
    THEN IF st[2] \in DOMAIN _status_codes
         THEN [self EXCEPT !.status = status_code(st[2])]
         ELSE [self EXCEPT !.status = ToString(st[2]) \o " Unknown"]
    ELSE [self EXCEPT !.status = st[2]]

\* Response._status_set: the status property's setter
_status_set(self, st) ==
    IF st[1] = "int"
    THEN IF st[2] \in DOMAIN _status_codes
         THEN [self EXCEPT !.status = status_code(st[2])]
         ELSE Raise(self, "KeyError")
    ELSE [self EXCEPT !.status = st[2]]

\* the truth value of an optional string: None and '' are false
TruthyStr(opt) == opt /= None /\ opt[1] /= ""

\* str.startswith
startswith(s, prefix) ==
    Len(s) >= Len(prefix) /\ SubSeq(s, 1, Len(prefix)) = prefix

charset == "utf-8"

default_content_type == "text/plain"

\* the content type __init__ stores
InitContentType(content_type, mimetype) ==
    LET ct1 == IF TruthyStr(mimetype)
               THEN IF startswith(mimetype[1], "text/")
                    THEN Some(mimetype[1] \o "; charset=" \o charset)
                    ELSE mimetype
               ELSE content_type
    IN  IF ct1 = None THEN default_content_type ELSE ct1[1]

\* mutant of __init__: the default content type is forgotten, the header is
\* stored only when a content type or mimetype was given
init_without_default(resp, st, content_type, mimetype) ==
    LET s0 == IF st = None THEN IntArg(200) ELSE st[1]
        o1 == _status_set(Obj("", EmptyDict, resp, None), s0)
    IN  IF o1.raised /= "" \/ (content_type = None /\ ~TruthyStr(mimetype))
        THEN o1
        ELSE [o1 EXCEPT !.headers =
                 Put(EmptyDict, "Content-type",
                     InitContentType(content_type, mimetype))]

\* Response.__init__
__init__(resp, st, content_type, mimetype) ==
    LET s0 == IF st = None THEN IntArg(200) ELSE st[1]
        o1 == _status_set(Obj("", EmptyDict, resp, None), s0)
    IN  IF o1.raised /= "" THEN o1
        ELSE [o1 EXCEPT !.headers =
                 Put(EmptyDict, "Content-type",
                     InitContentType(content_type, mimetype))]

\* mutant of _last_modified_set: "if date is None" for "if not date"
last_modified_set_unless_none(self, date) ==
    IF date = None THEN self
    ELSE LET ts == timestamp(date[1])
         IN  [self EXCEPT !._timestamp = Some(ts),
                          !.headers = Put(@, "Last-modified", format_httpdate(ts))]

\* Response._last_modified_set: the last_modified property's setter
_last_modified_set(self, date) ==
    IF date = None \/ date[1] = 0 THEN self
    ELSE LET ts == timestamp(date[1])
         IN  [self EXCEPT !._timestamp = Some(ts),
                          !.headers = Put(@, "Last-modified", format_httpdate(ts))]

\* mutant of _etag_set: the key spelled 'Etag'
etag_set_titlecase(self, value) == [self EXCEPT !.headers = Put(@, "Etag", value)]

\* Response._etag_set / _etag_get: the etag property
_etag_set(self, value) == [self EXCEPT !.headers = Put(@, "ETag", value)]

_etag_get(self) == DictGet(self.headers, "ETag", PyNone)

\* str(x) of a float time (in ticks) or of an int
FloatItem(t) == <<"float", t>>

IntItem(n) == <<"int", n>>

PyStrOf(x) ==
    IF x[1] = "float"
    THEN ToString(x[2] \div Res) \o "." \o ToString(((x[2] % Res) * 10) \div Res)
    ELSE ToString(x[2])

RECURSIVE Join(_)
Join(items) ==
    IF items = <<>> THEN "" ELSE PyStrOf(Head(items)) \o Join(Tail(items))

\* hashlib.md5(s).hexdigest(), as a symbolic digest: equal exactly on equal input
md5_hexdigest(s) == "md5:" \o s

\* the truth value of cache_headers' timestamp and etag_data arguments
TruthyNum(opt) == opt /= None /\ opt[1] /= 0

TruthySeq(opt) == opt /= None /\ opt[1] /= <<>>

\* mutant of SetsCacheControl: "and max_age" for "and max_age is not None"
SetsCacheControl_TruthyMaxAge(ts, etag_data, max_age) ==
    (TruthyNum(ts) \/ TruthySeq(etag_data)) /\ TruthyNum(max_age)

\* the condition under which cache_headers sets Cache-control
SetsCacheControl(ts, etag_data, max_age) ==
    (TruthyNum(ts) \/ TruthySeq(etag_data)) /\ max_age /= None

\* Response.cache_headers
cache_headers(self, ts, etag_data, max_age) ==
    LET s1 == _last_modified_set(self, ts)
        s2 == IF TruthySeq(etag_data)
              THEN _etag_set(s1, md5_hexdigest(Join(etag_data[1])))
              ELSE s1
    IN  IF SetsCacheControl(ts, etag_data, max_age)
        THEN [s2 EXCEPT !.headers =
                 Put(@, "Cache-control",
                     "max-age=" \o ToString(max_age[1]) \o " public")]
        ELSE s2

\* mutant of EtagMatches: environ.get('HTTP_IF_NONE_MATCH') without the -1
\* default, so that no etag equals no If-None-Match
EtagMatches_default_none(self, environ) ==
    _etag_get(self) = DictGet(environ, "HTTP_IF_NONE_MATCH", PyNone)

\* make_conditional, line 101: the etag equals the request's If-None-Match
EtagMatches(self, environ) ==
    _etag_get(self) = DictGet(environ, "HTTP_IF_NONE_MATCH", PyInt(-1))

\* mutant of NotModifiedSince: "<" for "<="
NotModifiedSince_Strict(self, environ) ==
    /\ self._timestamp /= None
    /\ LET date == DictGet(environ, "HTTP_IF_MODIFIED_SINCE", PyNone)
           ts == parse_httpdate(date)
       IN  ts /= None /\ self._timestamp[1] < ts[1]

\* mutant of NotModifiedSince: "is None or" for "is not None and", so that a
\* date that does not parse counts as a match
NotModifiedSince_ParseFailureMatches(self, environ) ==
    /\ self._timestamp /= None
    /\ LET date == DictGet(environ, "HTTP_IF_MODIFIED_SINCE", PyNone)
           ts == parse_httpdate(date)
       IN  ts = None \/ self._timestamp[1] <= ts[1]

\* make_conditional, lines 103-107: not modified since the request's date
NotModifiedSince(self, environ) ==
    /\ self._timestamp /= None
    /\ LET date == DictGet(environ, "HTTP_IF_MODIFIED_SINCE", PyNone)
           ts == parse_httpdate(date)
       IN  ts /= None /\ self._timestamp[1] <= ts[1]

\* mutant of NotModified: "if" for "elif", so that the date test overrides
\* the etag test whenever the Response has a timestamp
NotModified_DateOverrides(self, environ) ==
    IF self._timestamp /= None THEN NotModifiedSince(self, environ)
    ELSE EtagMatches(self, environ)

\* make_conditional, lines 99-107
NotModified(self, environ) ==
    IF EtagMatches(self, environ) THEN TRUE ELSE NotModifiedSince(self, environ)

\* mutant of Downgrade: the Content-type header is kept
Downgrade_KeepsContentType(self) ==
    [_status_set(self, IntArg(304)) EXCEPT !.response = List(<<>>)]

\* make_conditional, lines 109-113: the change to 304 Not Modified
Downgrade(self) ==
    LET s1 == _status_set(self, IntArg(304))
    IN  [s1 EXCEPT !.response = List(<<>>),
                   !.headers = IF "Content-type" \in DOMAIN @
                               THEN Del(@, "Content-type") ELSE @]

\* mutant of make_conditional: a modified Response is set (back) to 200
make_conditional_Resets(self, environ) ==
    IF NotModified(self, environ) THEN Downgrade(self)
    ELSE _status_set(self, IntArg(200))

\* Response.make_conditional
make_conditional(self, environ) ==
    IF NotModified(self, environ) THEN Downgrade(self) ELSE self

(* ----------------------------- file objects --------------------------- *)

\* a file-like object: its content, its read position, the attributes
\* __call__ asks for with hasattr, and whether close() has been called
FileObj(data, pos, has_seek, has_tell, ok_to_seek) ==
    [exists |-> TRUE, data |-> data, pos |-> pos, has_seek |-> has_seek,
     has_tell |-> has_tell, ok_to_seek |-> ok_to_seek, closed |-> FALSE]

NoFile ==
    [exists |-> FALSE, data |-> <<>>, pos |-> 0, has_seek |-> FALSE,
     has_tell |-> FALSE, ok_to_seek |-> "absent", closed |-> FALSE]

\* __call__, lines 139-142: the length of the stream may be measured
Seekable(file) ==
    /\ (file.ok_to_seek = "absent" \/ file.ok_to_seek = "True")
    /\ file.has_seek /\ file.has_tell

\* file.seek(0, 2), file.seek(0), file.tell()
seek_end(file) == [file EXCEPT !.pos = Len(file.data)]

seek_start(file) == [file EXCEPT !.pos = 0]

tell(file) == file.pos

Min(a, b) == IF a < b THEN a ELSE b

\* file.read(n): the bytes read and the file after the read
read(file, n) ==
    LET to == Min(file.pos + n, Len(file.data))
    IN  [data |-> SubSeq(file.data, file.pos + 1, to),
         file |-> [file EXCEPT !.pos = to]]

(* ---------------------------- serialization --------------------------- *)

\* len() of a str or unicode object
len(s) == Len(s.chars)

\* iter_encode's step on one chunk: the bytes it yields
iter_encode_chunk(chunk) ==
    IF chunk.kind = "unicode" THEN EncodeChars(chunk.chars) ELSE chunk.chars

\* Response.fixed_headers: the (key, value) pairs, in the dict's own order
fixed_headers(h) == {<<k, h[k]>> : k \in DOMAIN h}

\* Response.__call__ up to start_response: the Response, the file and the
\* iterable it returns
call(self, file, has_file_wrapper) ==
    IF self.response.kind = "file"
    THEN LET measured == seek_end(file)
             h1 == IF Seekable(file)
                   THEN Put(self.headers, "Content-length",
                            ToString(tell(measured)))
                   ELSE self.headers
             f1 == IF Seekable(file) THEN seek_start(measured) ELSE file
         IN  [self |-> [self EXCEPT !.headers = h1],
              file |-> f1,
              resp_iter |-> IF has_file_wrapper
                            THEN [kind |-> "file_wrapper", i |-> 0]
                            ELSE [kind |-> "callable_iterator", i |-> 0]]
    ELSE IF self.response.kind \in {"str", "unicode"}
    THEN [self |-> [self EXCEPT
                       !.headers = Put(@, "Content-length",
                                       ToString(len(self.response))),
                       !.response = List(<<self.response>>)],
          file |-> file,
          resp_iter |-> [kind |-> "generator", i |-> 1]]
    ELSE [self |-> self, file |-> file,
          resp_iter |-> [kind |-> "generator", i |-> 1]]

\* mutant of start_response: invoked on entry to __call__, ahead of the
\* Content-length bookkeeping
start_response_on_entry(entry, final) ==
    <<entry.status, fixed_headers(entry.headers)>>

\* Response.__call__, line 156: what start_response is invoked with, entry
\* being the Response as __call__ found it and final as lines 138-154 left it
start_response(entry, final) ==
    <<final.status, fixed_headers(final.headers)>>

(* ------------------------------- inputs ------------------------------- *)

\* "hi", u"\xe9", u"h€"
Strings == {Str(<<104, 105>>), Unicode(<<233>>), Unicode(<<104, 8364>>)}

Lists == {List(<<>>), List(<<Str(<<104>>), Unicode(<<233>>)>>)}

FileData == <<1, 2, 3>>

\* with seek and tell (ok_to_seek absent, true, false), and without tell
Files ==
    {FileObj(FileData, pos, TRUE, a[1], a[2]) :
        pos \in {0, 1},
        a \in {<<TRUE, "absent">>, <<TRUE, "True">>, <<TRUE, "False">>,
               <<FALSE, "absent">>}}

InitStatusArgs == {None, Some(IntArg(304)), Some(IntArg(299))}

StatusArgs ==
    {IntArg(200), IntArg(304), IntArg(299), StrArg("304 Not Modified")}

ContentTypes == {None, Some("image/png")}

Mimetypes == {None, Some("text/html")}

Times == {None} \cup {Some(t) : t \in 0 .. MaxTicks}

EtagDatas == {None, Some(<<>>), Some(<<IntItem(7)>>)}

MaxAges == {None, Some(0), Some(60)}

Etags == {"e1"}

\* the stat of the file the factory serves: st_mtime is a float
Mtimes == 0 .. MaxTicks

FileEtag(mtime) == md5_hexdigest(Join(<<FloatItem(mtime), IntItem(Len(FileData))>>))

IfNoneMatch == Etags

IfModifiedSince ==
    {"yesterday"} \cup {HttpDate(s) : s \in 0 .. (MaxTicks \div Res)}

\* the environs with these If-None-Match values
EnvironsWith(etags) ==
    {EmptyDict}
    \cup {Put(EmptyDict, "HTTP_IF_NONE_MATCH", e) : e \in etags}
    \cup {Put(EmptyDict, "HTTP_IF_MODIFIED_SINCE", d) : d \in IfModifiedSince}
    \cup {Put(Put(EmptyDict, "HTTP_IF_NONE_MATCH", e),
              "HTTP_IF_MODIFIED_SINCE", d) :
             e \in etags, d \in IfModifiedSince}

Environs == EnvironsWith(IfNoneMatch)

\* ctx.env, if ctx has it, when a file with this mtime is served
CtxEnvs(mtime) ==
    {None} \cup {Some(e) : e \in EnvironsWith(IfNoneMatch \cup {FileEtag(mtime)})}

(* ------------------------------- state -------------------------------- *)

Self == Obj(status, headers, response, _timestamp)

NoIter == [kind |-> "none", i |-> 0]

Install(o) ==
    /\ status' = o.status
    /\ headers' = o.headers
    /\ response' = o.response
    /\ _timestamp' = o._timestamp
    /\ raised' = o.raised

Init ==
    /\ phase = "start"
    /\ status = ""
    /\ headers = EmptyDict
    /\ response = List(<<>>)
    /\ _timestamp = None
    /\ f = NoFile
    /\ resp_iter = NoIter
    /\ started = <<>>
    /\ sent = <<>>
    /\ raised = ""
    /\ downgraded = FALSE
    /\ served = None
    /\ last = [op |-> "import", args |-> <<>>]

(* ------------------------------ actions ------------------------------- *)

\* Response(response, status, content_type, mimetype)
Construct(resp, file, st, content_type, mimetype) ==
    /\ phase = "start"
    /\ LET o == __init__(resp, st, content_type, mimetype)
       IN  IF o.raised /= ""
           THEN /\ raised' = o.raised
                /\ phase' = "failed"
                /\ UNCHANGED <<status, headers, response, _timestamp, f>>
           ELSE /\ Install(o)
                /\ phase' = "setup"
                /\ f' = file
    /\ last' = [op |-> "__init__", args |-> <<st, content_type, mimetype>>]
    /\ UNCHANGED <<resp_iter, started, sent, downgraded, served>>

\* response.status = st
SetStatus(st) ==
    /\ phase = "setup"
    /\ Install(_status_set(Self, st))
    /\ last' = [op |-> "status", args |-> <<>>]
    /\ UNCHANGED <<phase, f, resp_iter, started, sent, downgraded, served>>

\* response.etag = value
SetEtag(value) ==
    /\ phase = "setup"
    /\ Install(_etag_set(Self, value))
    /\ last' = [op |-> "etag", args |-> <<value>>]
    /\ UNCHANGED <<phase, f, resp_iter, started, sent, downgraded, served>>

\* response.cache_headers(timestamp, etag_data, max_age)
CacheHeaders(ts, etag_data, max_age) ==
    /\ phase = "setup"
    /\ Install(cache_headers(Self, ts, etag_data, max_age))
    /\ last' = [op |-> "cache_headers", args |-> <<>>]
    /\ UNCHANGED <<phase, f, resp_iter, started, sent, downgraded, served>>

\* response.make_conditional(environ)
MakeConditional(environ) ==
    /\ phase = "setup"
    /\ Install(make_conditional(Self, environ))
    /\ downgraded' = (downgraded \/ NotModified(Self, environ))
    /\ last' = [op |-> "make_conditional", args |-> <<environ>>]
    /\ UNCHANGED <<phase, f, resp_iter, started, sent, served>>

\* mutant of static_file_response: etag_data=(size, mtime) for (mtime, size)
static_file_response_size_first(guess, mtime, size, max_age, ctx_env) ==
    LET content_type == IF guess = None THEN Some("text/plain") ELSE guess
        resp == __init__(File, None, content_type, None)
        cached == cache_headers(resp, Some(mtime),
                                Some(<<IntItem(size), FloatItem(mtime)>>), max_age)
    IN  IF ctx_env /= None THEN make_conditional(cached, ctx_env[1]) ELSE cached

\* static_file_response, lines 172-183, once open(filename) has succeeded:
\* guess is mimetypes.guess_type(filename)[0], ctx_env is ctx.env if ctx has it
static_file_response(guess, mtime, size, max_age, ctx_env) ==
    LET content_type == IF guess = None THEN Some("text/plain") ELSE guess
        resp == __init__(File, None, content_type, None)
        cached == cache_headers(resp, Some(mtime),
                                Some(<<FloatItem(mtime), IntItem(size)>>), max_age)
    IN  IF ctx_env /= None THEN make_conditional(cached, ctx_env[1]) ELSE cached

\* static_file_response(filename, max_age)
StaticFileResponse(readable, guess, mtime, max_age, ctx_env) ==
    /\ phase = "start"
    /\ IF ~readable
       THEN /\ raised' = "IOError"
            /\ phase' = "failed"
            /\ UNCHANGED <<status, headers, response, _timestamp, f, downgraded>>
       ELSE /\ Install(static_file_response(guess, mtime, Len(FileData),
                                            max_age, ctx_env))
            /\ phase' = "setup"
            /\ f' = FileObj(FileData, 0, TRUE, TRUE, "absent")
            /\ downgraded' =
                   (/\ ctx_env /= None
                    /\ NotModified(static_file_response(guess, mtime,
                                       Len(FileData), max_age, None),
                                   ctx_env[1]))
    /\ last' = [op |-> "static_file_response",
                args |-> <<readable, guess, mtime, max_age, ctx_env>>]
    /\ UNCHANGED <<resp_iter, started, sent, served>>

\* response(environ, start_response)
Call(has_file_wrapper) ==
    /\ phase = "setup"
    /\ LET c == call(Self, f, has_file_wrapper)
       IN  /\ Install(c.self)
           /\ f' = c.file
           /\ resp_iter' = c.resp_iter
           /\ started' = Append(started, start_response(Self, c.self))
    /\ phase' = "serving"
    /\ served' = Some([body |-> response, pos |-> f.pos])
    /\ sent' = <<>>
    /\ last' = [op |-> "__call__", args |-> <<has_file_wrapper>>]
    /\ UNCHANGED downgraded

\* the transport is finished with resp_iter: it calls its close() if it has
\* one; only the server's file wrapper has one that closes the file
Release(file, it) ==
    IF it.kind = "file_wrapper" THEN [file EXCEPT !.closed = TRUE] ELSE file

\* the transport pulls the next chunk from resp_iter
Pull ==
    /\ phase = "serving"
    /\ IF resp_iter.kind = "generator"
       THEN IF resp_iter.i <= Len(response.items)
            THEN /\ sent' = Append(sent,
                                   iter_encode_chunk(response.items[resp_iter.i]))
                 /\ resp_iter' = [resp_iter EXCEPT !.i = @ + 1]
                 /\ UNCHANGED <<phase, f>>
            ELSE /\ phase' = "done"
                 /\ UNCHANGED <<sent, resp_iter, f>>
       ELSE LET r == read(f, block_size)
            IN  IF r.data /= <<>>
                THEN /\ sent' = Append(sent, r.data)
                     /\ f' = r.file
                     /\ resp_iter' = [resp_iter EXCEPT !.i = @ + 1]
                     /\ UNCHANGED phase
                ELSE /\ phase' = "done"
                     /\ f' = Release(r.file, resp_iter)
                     /\ UNCHANGED <<sent, resp_iter>>
    /\ last' = [op |-> "next", args |-> <<>>]
    /\ UNCHANGED <<status, headers, response, _timestamp, started, raised,
                   downgraded, served>>

\* the transport stops pulling (the client has gone)
Abandon ==
    /\ phase = "serving"
    /\ phase' = "abandoned"
    /\ f' = Release(f, resp_iter)
    /\ last' = [op |-> "abandon", args |-> <<>>]
    /\ UNCHANGED <<status, headers, response, _timestamp, resp_iter, started,
                   sent, raised, downgraded, served>>

\* the runtime may finalize a file object nothing refers to any more (the
\* body was replaced, or the transport is finished): that closes it. Nothing
\* in the program makes this happen.
Collect ==
    /\ f.exists /\ ~f.closed
    /\ phase \in {"done", "abandoned"} \/ (phase = "setup" /\ response.kind /= "file")
    /\ f' = [f EXCEPT !.closed = TRUE]
    /\ UNCHANGED <<phase, status, headers, response, _timestamp, resp_iter,
                   started, sent, raised, downgraded, served, last>>

Next ==
    \/ \E resp \in Strings \cup Lists, st \in InitStatusArgs,
          ct \in ContentTypes, mt \in Mimetypes :
          Construct(resp, NoFile, st, ct, mt)
    \/ \E file \in Files, st \in InitStatusArgs,
          ct \in ContentTypes, mt \in Mimetypes :
          Construct(File, file, st, ct, mt)
    \/ \E readable \in BOOLEAN, guess \in ContentTypes, mtime \in Mtimes,
          max_age \in MaxAges :
          \E ctx_env \in CtxEnvs(mtime) :
             StaticFileResponse(readable, guess, mtime, max_age, ctx_env)
    \/ \E st \in StatusArgs : SetStatus(st)
    \/ \E value \in Etags : SetEtag(value)
    \/ \E ts \in Times, etag_data \in EtagDatas, max_age \in MaxAges :
          CacheHeaders(ts, etag_data, max_age)
    \/ \E environ \in Environs : MakeConditional(environ)
    \/ \E has_file_wrapper \in BOOLEAN : Call(has_file_wrapper)
    \/ Pull
    \/ Abandon
    \/ Collect

Spec == Init /\ [][Next]_vars

(* ------------------------------ claims -------------------------------- *)

Constructed == phase \notin {"start", "failed"}

NotModifiedLine == "304 Not Modified"

EmptyBody == List(<<>>)

HasContentType(h) == "Content-type" \in DOMAIN h

\* the Response's fields, without the exception of the operation
Fields(o) == Obj(o.status, o.headers, o.response, o._timestamp)

\* the request presents the Response's own etag as If-None-Match
PresentsEtag(h, environ) ==
    /\ "ETag" \in DOMAIN h
    /\ "HTTP_IF_NONE_MATCH" \in DOMAIN environ
    /\ environ["HTTP_IF_NONE_MATCH"] = h["ETag"]

\* the environs of the model, and those that present the Response's own etag
EnvironsHere ==
    Environs \cup (IF "ETag" \in DOMAIN headers
                   THEN EnvironsWith({headers["ETag"]}) ELSE {})

IsHttpDate(d) == \E s \in 0 .. 9 : d = HttpDate(s)

\* the ticks an If-Modified-Since date stands for
DateTicks(d) == Res * (CHOOSE s \in 0 .. 9 : d = HttpDate(s))

\* C1 as stated: in every state of a Response, however it got its status, a
\* status of 304 comes with an empty body and without a Content-Type header.
C1_Status304IsBare ==
    (Constructed /\ status = NotModifiedLine)
        => (response = EmptyBody /\ ~HasContentType(headers))

\* C1, amended: a Response that make_conditional has downgraded has an empty
\* body and no Content-Type header, and every make_conditional call that finds
\* the Response not modified leaves it with status 304, an empty body and no
\* Content-Type header.
C1_DowngradedIsBare ==
    Constructed =>
        /\ downgraded => (response = EmptyBody /\ ~HasContentType(headers))
        /\ \A environ \in EnvironsHere :
              NotModified(Self, environ) =>
                 LET r == make_conditional(Self, environ)
                 IN  /\ r.status = NotModifiedLine
                     /\ r.response = EmptyBody
                     /\ ~HasContentType(r.headers)

\* C1, witness: make_conditional has just downgraded a Response that had a body
C1_Witness ==
    /\ phase = "setup" /\ last.op = "make_conditional" /\ downgraded
    /\ NotModified(Self, last.args[1])
    /\ status = NotModifiedLine /\ response = EmptyBody
    /\ ~HasContentType(headers)

\* C2 as stated: when the iterator __call__ returned has been consumed to
\* exhaustion and Content-Length is set, the bytes delivered number exactly
\* Content-Length.
C2_DeliveredEqualsContentLength ==
    (phase = "done" /\ "Content-length" \in DOMAIN headers)
        => headers["Content-length"] = ToString(Len(Concat(sent)))

\* C3 as stated: once the transport has exhausted the chunk sequence, or has
\* stopped pulling from it, the file handle that was the body (or that the
\* factory opened before make_conditional replaced the body) is closed.
C3_HandleReleased ==
    (phase \in {"done", "abandoned"} /\ f.exists) => f.closed

\* C4: a request whose If-None-Match equals the Response's etag makes
\* make_conditional end in status 304 whatever its If-Modified-Since is, and a
\* request without If-None-Match is never found not modified by its etag: when
\* its date does not match either, make_conditional changes nothing.
C4_EtagRoundTrip ==
    phase = "setup" =>
        \A environ \in EnvironsHere :
           LET r == make_conditional(Self, environ)
           IN  /\ PresentsEtag(headers, environ)
                    => (r.status = NotModifiedLine /\ r.raised = "")
               /\ ("HTTP_IF_NONE_MATCH" \notin DOMAIN environ
                   /\ ~NotModifiedSince(Self, environ))
                    => r = Self

\* C4, witness: make_conditional was called with the Response's etag and a date
\* earlier than the Response's timestamp, and the status is 304
C4_Witness ==
    /\ phase = "setup" /\ last.op = "make_conditional"
    /\ PresentsEtag(headers, last.args[1])
    /\ "HTTP_IF_MODIFIED_SINCE" \in DOMAIN last.args[1]
    /\ IsHttpDate(last.args[1]["HTTP_IF_MODIFIED_SINCE"])
    /\ _timestamp /= None
    /\ _timestamp[1] > DateTicks(last.args[1]["HTTP_IF_MODIFIED_SINCE"])
    /\ status = NotModifiedLine

\* C5: with a timestamp T, no etag match and an If-Modified-Since that parses to
\* P, make_conditional makes the Response a 304 when T <= P and leaves it as it
\* is when T > P.
C5_NotModifiedSinceRule ==
    phase = "setup" =>
        \A environ \in EnvironsHere :
           (/\ _timestamp /= None
            /\ ~PresentsEtag(headers, environ)
            /\ "HTTP_IF_MODIFIED_SINCE" \in DOMAIN environ
            /\ IsHttpDate(environ["HTTP_IF_MODIFIED_SINCE"]))
             => LET T == _timestamp[1]
                    P == DateTicks(environ["HTTP_IF_MODIFIED_SINCE"])
                    r == make_conditional(Self, environ)
                IN  /\ T <= P => (r.status = NotModifiedLine
                                  /\ r.response = EmptyBody)
                    /\ T > P => r = Self

\* C5, witness: make_conditional was called on a Response without etag with a
\* date equal to its timestamp, and the status is 304
C5_Witness ==
    /\ phase = "setup" /\ last.op = "make_conditional"
    /\ "ETag" \notin DOMAIN headers
    /\ "HTTP_IF_MODIFIED_SINCE" \in DOMAIN last.args[1]
    /\ IsHttpDate(last.args[1]["HTTP_IF_MODIFIED_SINCE"])
    /\ _timestamp /= None
    /\ _timestamp[1] = DateTicks(last.args[1]["HTTP_IF_MODIFIED_SINCE"])
    /\ status = NotModifiedLine /\ response = EmptyBody

\* C6: make_conditional twice with one environ gives the state that once gives;
\* and from a Response that make_conditional has downgraded, a further call
\* with any environ keeps the status, the empty body and the missing
\* Content-Type header.
C6_IdempotentIrreversible ==
    phase = "setup" =>
        \A environ \in EnvironsHere :
           LET once == make_conditional(Self, environ)
           IN  /\ make_conditional(once, environ) = once
               /\ NotModified(Self, environ) =>
                     \A later \in EnvironsHere :
                        LET r == make_conditional(once, later)
                        IN  /\ r.status = once.status
                            /\ r.response = EmptyBody
                            /\ ~HasContentType(r.headers)
               /\ (downgraded /\ status = NotModifiedLine) =>
                     /\ once.status = NotModifiedLine
                     /\ once.response = EmptyBody
                     /\ ~HasContentType(once.headers)

\* C6, witness: after a downgrade, make_conditional was called again with an
\* environ that matches nothing, and the Response is still a bare 304
C6_Witness ==
    /\ phase = "setup" /\ last.op = "make_conditional" /\ downgraded
    /\ ~NotModified(Self, last.args[1])
    /\ status = NotModifiedLine /\ response = EmptyBody
    /\ ~HasContentType(headers)

\* C7: with a timestamp, no etag match and an If-Modified-Since that is absent
\* or does not parse, make_conditional raises nothing and changes nothing.
C7_MalformedDateIsNoMatch ==
    phase = "setup" =>
        \A environ \in EnvironsHere :
           (/\ _timestamp /= None
            /\ ~PresentsEtag(headers, environ)
            /\ \/ "HTTP_IF_MODIFIED_SINCE" \notin DOMAIN environ
               \/ ~IsHttpDate(environ["HTTP_IF_MODIFIED_SINCE"]))
             => LET r == make_conditional(Self, environ)
                IN  r.raised = "" /\ Fields(r) = Fields(Self)

\* C7, witness: make_conditional was called with an unparseable date on a 200
\* Response that has a timestamp, and it is still a 200 with its Content-Type
C7_Witness ==
    /\ phase = "setup" /\ last.op = "make_conditional"
    /\ "HTTP_IF_MODIFIED_SINCE" \in DOMAIN last.args[1]
    /\ ~IsHttpDate(last.args[1]["HTTP_IF_MODIFIED_SINCE"])
    /\ ~PresentsEtag(headers, last.args[1])
    /\ _timestamp /= None /\ ~downgraded /\ raised = ""
    /\ status = "200 OK" /\ HasContentType(headers) /\ response /= EmptyBody

\* the Cache-Control header cache_headers leaves: set to this max_age, or as
\* it was
CacheControlSet(r, max_age) ==
    /\ "Cache-control" \in DOMAIN r.headers
    /\ r.headers["Cache-control"] = "max-age=" \o ToString(max_age[1]) \o " public"

CacheControlKept(r) ==
    /\ ("Cache-control" \in DOMAIN r.headers) = ("Cache-control" \in DOMAIN headers)
    /\ "Cache-control" \in DOMAIN headers
          => r.headers["Cache-control"] = headers["Cache-control"]

\* C8 as stated: cache_headers sets Cache-Control exactly when (a timestamp was
\* supplied, 0 included, or a non-empty etag_seed was supplied) and max_age is
\* not none.
C8_SuppliedTimestampSetsCacheControl ==
    phase = "setup" =>
        \A ts \in Times, etag_data \in EtagDatas, max_age \in MaxAges :
           LET r == cache_headers(Self, ts, etag_data, max_age)
           IN  IF (ts /= None \/ (etag_data /= None /\ etag_data[1] /= <<>>))
                  /\ max_age /= None
               THEN CacheControlSet(r, max_age)
               ELSE CacheControlKept(r)

\* C8, amended: cache_headers sets Cache-Control to "max-age=<max_age> public"
\* exactly when (the timestamp is supplied and is not 0, or a non-empty
\* etag_seed was supplied) and max_age is not none, 0 included; otherwise it
\* leaves the header as it was.
C8_TruthyTimestampSetsCacheControl ==
    phase = "setup" =>
        \A ts \in Times, etag_data \in EtagDatas, max_age \in MaxAges :
           LET r == cache_headers(Self, ts, etag_data, max_age)
           IN  IF ((ts /= None /\ ts[1] /= 0)
                   \/ (etag_data /= None /\ etag_data[1] /= <<>>))
                  /\ max_age /= None
               THEN CacheControlSet(r, max_age)
               ELSE CacheControlKept(r)

\* C8, witness: cache_headers has set Cache-Control for a max_age of 0
C8_Witness ==
    /\ phase = "setup" /\ last.op = "cache_headers"
    /\ "Cache-control" \in DOMAIN headers
    /\ headers["Cache-control"] = "max-age=0 public"

\* the body __call__ found was a file whose length it may measure
ServedSeekable ==
    /\ f.has_seek /\ f.has_tell /\ f.ok_to_seek /= "False"

\* C9 as stated: after __call__, Content-Length is the byte length of a Bytes
\* body, the end offset of a seekable Stream, and absent for a ChunkSequence
\* and for a Stream that is not seekable, which is delivered by reads of at
\* most block_size bytes until a read returns empty.
C9_ContentLengthDerived ==
    phase \in {"serving", "done", "abandoned"} =>
        LET body == served[1].body
            has == "Content-length" \in DOMAIN headers
        IN  /\ body.kind \in {"str", "unicode"} =>
                  /\ has
                  /\ headers["Content-length"]
                        = ToString(Len(iter_encode_chunk(body)))
            /\ (body.kind = "file" /\ ServedSeekable) =>
                  (has /\ headers["Content-length"] = ToString(Len(f.data)))
            /\ body.kind = "list" => ~has
            /\ (body.kind = "file" /\ ~ServedSeekable) =>
                  /\ ~has
                  /\ \A i \in 1 .. Len(sent) :
                        Len(sent[i]) >= 1 /\ Len(sent[i]) <= block_size
                  /\ phase = "done" =>
                        Concat(sent)
                           = SubSeq(f.data, served[1].pos + 1, Len(f.data))

\* C10: a Response has a Content-Type header unless make_conditional has
\* downgraded it, and directly after construction with neither content_type
\* nor mimetype the header is "text/plain".
C10_ContentTypePresent ==
    Constructed =>
        /\ HasContentType(headers) \/ downgraded
        /\ (last.op = "__init__" /\ last.args[2] = None /\ last.args[3] = None)
              => headers["Content-type"] = "text/plain"

\* C10, witness: a Response constructed with neither content_type nor mimetype
C10_Witness ==
    /\ phase = "setup" /\ last.op = "__init__"
    /\ last.args[2] = None /\ last.args[3] = None
    /\ headers["Content-type"] = "text/plain"

\* the codes of RFC 2616 the table lists
TableCodes ==
    {100, 101} \cup (200 .. 206) \cup (300 .. 305) \cup {307}
               \cup (400 .. 417) \cup (500 .. 505)

\* integers around and between the table's codes
OtherCodes == {-1, 0, 99, 102, 199, 207, 299, 306, 308, 399, 418, 499, 506, 600}

\* the outcome of constructing with, or assigning, an int status: the status
\* line for a code of the table, else KeyError with nothing changed
StatusOutcome(before, r, code) ==
    IF code \in TableCodes
    THEN /\ r.raised = ""
         /\ r.status = ToString(code) \o " " \o _status_codes[code]
    ELSE /\ r.raised = "KeyError"
         /\ r.status = before.status
         /\ r.headers = before.headers
         /\ r.response = before.response

StatusOutcomes ==
    /\ DOMAIN _status_codes = TableCodes
    /\ phase = "start" =>
          \A code \in TableCodes \cup OtherCodes :
             \A resp \in Strings :
                StatusOutcome(Obj("", EmptyDict, resp, None),
                              __init__(resp, Some(IntArg(code)), None, None),
                              code)
    /\ phase = "setup" =>
          \A code \in TableCodes \cup OtherCodes :
             StatusOutcome(Self, _status_set(Self, IntArg(code)), code)

\* C11 as stated: an int status that is one of the 35 codes of the table gives
\* the status line "<code> <phrase>", at construction and at assignment; any
\* other int fails with the unknown-code error, and a failed assignment leaves
\* status, headers and body as they were.
C11_ThirtyFiveCodes == Cardinality(DOMAIN _status_codes) = 35 /\ StatusOutcomes

\* C11, amended: the same, the table having 40 codes (100, 101, 200-206,
\* 300-305, 307, 400-417, 500-505).
C11_FortyCodes == Cardinality(DOMAIN _status_codes) = 40 /\ StatusOutcomes

\* C11, witness: an assignment of an unknown code has failed on a Response
\* that has a status, headers and a body
C11_Witness ==
    /\ phase = "setup" /\ last.op = "status" /\ raised = "KeyError"
    /\ status = "200 OK" /\ HasContentType(headers) /\ response.kind = "str"

\* the headers cache_headers may write
CacheHeaderNames == {"Last-modified", "ETag", "Cache-control"}

\* header dicts h and g agree on every name of the set names
SameOn(h, g, names) ==
    \A k \in names : /\ (k \in DOMAIN h) = (k \in DOMAIN g)
                     /\ k \in DOMAIN h => h[k] = g[k]

\* every header name the module writes
HeaderNames == CacheHeaderNames \cup {"Content-type", "Content-length"}

\* C12: cache_headers, whatever its arguments, leaves the status, the body,
\* Content-Type and every header other than Last-Modified, ETag and
\* Cache-Control as they were and raises nothing; when its timestamp argument
\* is absent or falsy it leaves the timestamp and Last-Modified unchanged too.
C12_CacheHeadersFrame ==
    phase = "setup" =>
       \A ts \in Times : \A etag_data \in EtagDatas : \A max_age \in MaxAges :
          LET r == cache_headers(Self, ts, etag_data, max_age)
          IN  /\ r.raised = ""
              /\ r.status = status
              /\ r.response = response
              /\ DOMAIN r.headers \subseteq DOMAIN headers \cup CacheHeaderNames
              /\ SameOn(r.headers, headers,
                        (HeaderNames \cup DOMAIN headers) \ CacheHeaderNames)
              /\ ~ TruthyNum(ts) =>
                    /\ r._timestamp = _timestamp
                    /\ SameOn(r.headers, headers, {"Last-modified"})

\* C12, witness: cache_headers has acted on a Response with a status, a body
\* and a Content-Type, never with a truthy timestamp, and has written ETag and
\* Cache-Control
C12_Witness ==
    /\ phase = "setup" /\ last.op = "cache_headers"
    /\ _timestamp = None /\ "Last-modified" \notin DOMAIN headers
    /\ "ETag" \in DOMAIN headers /\ "Cache-control" \in DOMAIN headers
    /\ HasContentType(headers) /\ status = "200 OK" /\ response.kind = "str"

\* the state is the one static_file_response returned for a readable file
FromStaticFile ==
    phase = "setup" /\ last.op = "static_file_response" /\ last.args[1]

\* the hash of str(m) followed by str(s), m a float and s an int
StatEtag(m, s) == md5_hexdigest(PyStrOf(FloatItem(m)) \o ToString(s))

\* C13: static_file_response on a readable file of modification time m and
\* size s returns, with no ambient request context, status 200 with the open
\* file as body, a Content-Type, ETag = hash of str(m) + str(s) and, for a
\* max_age that is given, Cache-Control "max-age=<max_age> public" (none for
\* max_age None); with an ambient context whose If-None-Match equals that ETag
\* it returns status 304 with no Content-Type and an empty chunk sequence.
C13_StaticFileResponse ==
    FromStaticFile =>
       LET m == last.args[3]
           max_age == last.args[4]
           ctx_env == last.args[5]
           etag == StatEtag(m, Len(FileData))
       IN  /\ ctx_env = None =>
                /\ status = "200 OK"
                /\ response = File
                /\ f.exists /\ ~ f.closed
                /\ HasContentType(headers)
                /\ "ETag" \in DOMAIN headers /\ headers["ETag"] = etag
                /\ IF max_age = None
                   THEN "Cache-control" \notin DOMAIN headers
                   ELSE /\ "Cache-control" \in DOMAIN headers
                        /\ headers["Cache-control"] =
                              "max-age=" \o ToString(max_age[1]) \o " public"
           /\ (/\ ctx_env /= None
               /\ DictGet(ctx_env[1], "HTTP_IF_NONE_MATCH", PyNone) = PyStr(etag)) =>
                /\ status = NotModifiedLine
                /\ ~ HasContentType(headers)
                /\ response = EmptyBody

\* C13, witness: the factory has answered 304 to a context presenting the
\* file's ETag, for a file whose modification time has a sub-second fraction
C13_Witness ==
    /\ FromStaticFile
    /\ last.args[3] % Res /= 0
    /\ last.args[5] /= None
    /\ DictGet(last.args[5][1], "HTTP_IF_NONE_MATCH", PyNone)
          = PyStr(StatEtag(last.args[3], Len(FileData)))
    /\ status = NotModifiedLine

\* C13, the other case: the factory has returned a 200 with Cache-Control
C13_WitnessFresh ==
    /\ FromStaticFile /\ last.args[5] = None /\ last.args[4] = Some(60)
    /\ status = "200 OK" /\ "Cache-control" \in DOMAIN headers

\* the header names as the interface lists them
ListedNames ==
    {"Content-Type", "Content-Length", "Last-Modified", "ETag", "Cache-Control"}

\* the header names as response.py spells them
WrittenNames ==
    {"Content-type", "Content-length", "Last-modified", "ETag", "Cache-control"}

\* the names of the headers handed to start_response in the i-th call
HandedNames(i) == {kv[1] : kv \in started[i][2]}

\* every header stored, and every header handed to the transport, has a name
\* of the set names, and the transport is handed the stored headers
NamesWithin(names) ==
    Constructed =>
       /\ DOMAIN headers \subseteq names
       /\ \A i \in 1 .. Len(started) :
             /\ HandedNames(i) \subseteq names
             /\ HandedNames(i) = DOMAIN headers

\* C14 as stated: every header is stored and handed to the transport under
\* one of the names Content-Type, Content-Length, Last-Modified, ETag,
\* Cache-Control, in exactly this letter case.
C14_ListedLetterCase == NamesWithin(ListedNames)

\* C14, amended: every header is stored and handed to the transport under
\* one of the names Content-type, Content-length, Last-modified, ETag,
\* Cache-control, in exactly this letter case.
C14_WrittenLetterCase == NamesWithin(WrittenNames)

\* C14, witness: a Response carrying all five headers has been handed to the
\* transport
C14_Witness ==
    /\ phase = "serving" /\ Len(started) = 1
    /\ HandedNames(1) = WrittenNames

\* C15: in every serialization by __call__, start_response is invoked exactly
\* once, with the formatted status line and the flattened header list, after
\* Content-Length has been finalized and before the returned iterator has
\* produced any body chunk.
C15_StartResponseOnce ==
    /\ phase \in {"start", "setup", "failed"} => started = <<>> /\ sent = <<>>
    /\ phase \in {"serving", "done", "abandoned"} =>
          /\ Len(started) = 1
          /\ started[1] = <<status, fixed_headers(headers)>>
          /\ served[1].body.kind \in {"str", "unicode"} =>
                \E kv \in started[1][2] :
                   /\ kv[1] = "Content-length"
                   /\ kv[2] = ToString(len(served[1].body))
          /\ (served[1].body.kind = "file" /\ "Content-length" \in DOMAIN headers) =>
                <<"Content-length", ToString(Len(f.data))>> \in started[1][2]
    /\ last.op = "__call__" =>
          /\ sent = <<>>
          /\ resp_iter.i = (IF resp_iter.kind = "generator" THEN 1 ELSE 0)
          /\ response.kind = "file" =>
                f.pos = (IF "Content-length" \in DOMAIN headers
                         THEN 0 ELSE served[1].pos)

\* C15, witness: start_response has been invoked once with a Content-length,
\* and the iterator has produced chunks since
C15_Witness ==
    /\ phase = "serving" /\ sent /= <<>> /\ Len(started) = 1
    /\ \E kv \in started[1][2] : kv[1] = "Content-length"
    /\ started[1][1] = "200 OK"

\* the request's If-Modified-Since is absent, does not parse, or is earlier
\* than the timestamp ts
NoDateOrEarlier(environ, ts) ==
    \/ "HTTP_IF_MODIFIED_SINCE" \notin DOMAIN environ
    \/ ~ IsHttpDate(environ["HTTP_IF_MODIFIED_SINCE"])
    \/ DateTicks(environ["HTTP_IF_MODIFIED_SINCE"]) < ts

\* C16: when the etag is not the request's If-None-Match, and the timestamp is
\* unset or If-Modified-Since is absent, unparseable or earlier than it,
\* make_conditional leaves the Response entirely unchanged and raises nothing.
C16_ModifiedIsUnchanged ==
    phase = "setup" =>
       \A environ \in EnvironsHere :
          (/\ ~ PresentsEtag(headers, environ)
           /\ _timestamp = None \/ NoDateOrEarlier(environ, _timestamp[1]))
            => make_conditional(Self, environ) = Self

\* C16, witness: make_conditional was called with a date earlier than the
\* timestamp and another etag than the Response's, and the Response is still
\* the 200 it was
C16_Witness ==
    /\ phase = "setup" /\ last.op = "make_conditional"
    /\ _timestamp /= None /\ "ETag" \in DOMAIN headers
    /\ "HTTP_IF_NONE_MATCH" \in DOMAIN last.args[1]
    /\ ~ PresentsEtag(headers, last.args[1])
    /\ "HTTP_IF_MODIFIED_SINCE" \in DOMAIN last.args[1]
    /\ IsHttpDate(last.args[1]["HTTP_IF_MODIFIED_SINCE"])
    /\ DateTicks(last.args[1]["HTTP_IF_MODIFIED_SINCE"]) < _timestamp[1]
    /\ ~ downgraded /\ raised = ""
    /\ status = "200 OK" /\ HasContentType(headers) /\ response /= EmptyBody

\* the request that sends the Response's own Last-Modified header back as
\* If-Modified-Since, with no If-None-Match
EchoLastModified(h) ==
    Put(EmptyDict, "HTTP_IF_MODIFIED_SINCE", h["Last-modified"])

\* C17: for every timestamp T that cache_headers accepts, sub-second fraction
\* or not, a request that sends the Response's Last-Modified header back as
\* If-Modified-Since, with no matching If-None-Match, makes make_conditional
\* downgrade the Response to 304.
C17_LastModifiedRoundTrip ==
    phase = "setup" =>
       \A T \in Times : \A etag_data \in EtagDatas : \A max_age \in MaxAges :
          TruthyNum(T) =>
             LET r == cache_headers(Self, T, etag_data, max_age)
                 c == make_conditional(r, EchoLastModified(r.headers))
             IN  /\ "Last-modified" \in DOMAIN r.headers
                 /\ c.status = NotModifiedLine
                 /\ c.response = EmptyBody

\* C17 for the timestamps that are whole seconds, where the round trip holds
C17_WholeSecondRoundTrip ==
    phase = "setup" =>
       \A T \in Times : \A etag_data \in EtagDatas : \A max_age \in MaxAges :
          (TruthyNum(T) /\ T[1] % Res = 0) =>
             LET r == cache_headers(Self, T, etag_data, max_age)
                 c == make_conditional(r, EchoLastModified(r.headers))
             IN  /\ "Last-modified" \in DOMAIN r.headers
                 /\ c.status = NotModifiedLine
                 /\ c.response = EmptyBody

====
